---- MODULE Spec2Model ----
(***************************************************************************)
(* Vehicle-dealership API (src/src): Vehicle and Sale entities, their use  *)
(* cases, the gateways and the SQLAlchemy repositories, as a state machine *)
(* over the two tables `vehicles` and `sales`.                              *)
(*                                                                         *)
(* Text values are tuples of one-character strings, so that strip(),       *)
(* lower() and title() are computed.  Money is an amount with up to three  *)
(* decimals, [c |-> cents, m |-> thousandths digit]; a stored amount is an *)
(* integer number of cents.  Time is counted in days.                      *)
(***************************************************************************)
EXTENDS Integers, Sequences, FiniteSets, TLC

VARIABLES vehicles, sales, nextVehicleId, nextSaleId, now, last, calls

vars == <<vehicles, sales, nextVehicleId, nextSaleId, now, last, calls>>

-----------------------------------------------------------------------------
(* Bounds of the model *)

MaxVehicles == 2

(* the clock stops at MaxNow *)
MaxNow == 2

-----------------------------------------------------------------------------
(* Characters and the str methods the code calls *)

LowerAlpha == <<"a", "b", "c", "d", "e", "j", "o", "p", "r", "t", "v">>
UpperAlpha == <<"A", "B", "C", "D", "E", "J", "O", "P", "R", "T", "V">>
Digits == {"0", "1", "2", "3", "4", "5", "6", "7", "8", "9"}

IndexIn(alpha, c) == CHOOSE i \in 1..Len(alpha) : alpha[i] = c
IsLower(c) == \E i \in 1..Len(LowerAlpha) : LowerAlpha[i] = c
IsUpper(c) == \E i \in 1..Len(UpperAlpha) : UpperAlpha[i] = c
IsLetter(c) == IsLower(c) \/ IsUpper(c)
IsDigit(c) == c \in Digits
IsSpace(c) == c = " "
ToUpper(c) == IF IsLower(c) THEN UpperAlpha[IndexIn(LowerAlpha, c)] ELSE c
ToLower(c) == IF IsUpper(c) THEN LowerAlpha[IndexIn(UpperAlpha, c)] ELSE c

RECURSIVE LStrip(_)
LStrip(s) == IF s # <<>> /\ IsSpace(Head(s)) THEN LStrip(Tail(s)) ELSE s

RECURSIVE RStrip(_)
RStrip(s) ==
    IF s # <<>> /\ IsSpace(s[Len(s)]) THEN RStrip(SubSeq(s, 1, Len(s) - 1)) ELSE s

(* str.strip() *)
Strip(s) == RStrip(LStrip(s))

(* str.lower() *)
Lower(s) == [i \in 1..Len(s) |-> ToLower(s[i])]

(* variant: str.swapcase(), every letter changes case *)
Title_SwapCase(s) ==
    [i \in 1..Len(s) |-> IF IsLower(s[i]) THEN ToUpper(s[i]) ELSE ToLower(s[i])]

(* str.title(): a letter that follows a letter is lowered, any other letter raised *)
Title(s) ==
    [i \in 1..Len(s) |->
        IF i > 1 /\ IsLetter(s[i - 1]) THEN ToLower(s[i]) ELSE ToUpper(s[i])]

AllChars(s, P(_)) == \A i \in 1..Len(s) : P(s[i])

-----------------------------------------------------------------------------
(* Results of a call: "OK" or the kind of the error raised.  The code raises *)
(* ValueError for the four validation kinds (told apart by the raise site)   *)
(* and a bare Exception for a storage failure.                               *)

OK == "OK"
NOT_FOUND == "NOT_FOUND"
INVALID_STATE == "INVALID_STATE"
INVALID_FIELD == "INVALID_FIELD"
CONFLICT == "CONFLICT"
INTERNAL == "INTERNAL"

ValueErrors == {NOT_FOUND, INVALID_STATE, INVALID_FIELD, CONFLICT}

Good(x) == [err |-> OK, val |-> x]
Bad(kind, x) == [err |-> kind, val |-> x]

(* `x` evaluated once and handed to F: the local variable of the code *)
With(x, F(_)) == CHOOSE r \in {F(y) : y \in {x}} : TRUE

(* An optional argument: None, or a supplied value *)
None(dflt) == [some |-> FALSE, val |-> dflt]
Some(x) == [some |-> TRUE, val |-> x]

-----------------------------------------------------------------------------
(* Vehicle entity: src/src/entities/vehicle.py *)

AVAILABLE == "available"
SOLD == "sold"

MinYear == 1900
CurrentYear == 2025
MaxPriceCents == 999999999

Money(cents) == [c |-> cents, m |-> 0]

(* price <= 0 and price > Decimal('9999999.99') on an amount with 3 decimals *)
MoneyLeqZero(p) == p.c < 0 \/ (p.c = 0 /\ p.m = 0)
MoneyGtMax(p) == p.c > MaxPriceCents \/ (p.c = MaxPriceCents /\ p.m > 0)

(* Decimal.quantize(Decimal('0.01')), ROUND_HALF_EVEN: cents of the result *)
Quantize(p) ==
    IF p.m < 5 THEN p.c
    ELSE IF p.m > 5 THEN p.c + 1
    ELSE IF p.c % 2 = 0 THEN p.c ELSE p.c + 1

_validate_brand(brand) ==
    IF brand = <<>> THEN Bad(INVALID_FIELD, brand)
    ELSE With(Strip(brand), LAMBDA b :
         IF Len(b) < 2 \/ Len(b) > 50 THEN Bad(INVALID_FIELD, brand)
         ELSE IF ~AllChars(b, LAMBDA ch : IsLetter(ch) \/ IsDigit(ch) \/ IsSpace(ch))
              THEN Bad(INVALID_FIELD, brand)
         ELSE Good(Title(b)))

_validate_model(model) ==
    IF model = <<>> THEN Bad(INVALID_FIELD, model)
    ELSE With(Strip(model), LAMBDA md :
         IF Len(md) < 1 \/ Len(md) > 100 THEN Bad(INVALID_FIELD, model)
         ELSE Good(Title(md)))

_validate_year(year) ==
    IF year < MinYear \/ year > CurrentYear + 1 THEN Bad(INVALID_FIELD, year)
    ELSE Good(year)

_validate_price(price) ==
    IF MoneyLeqZero(price) \/ MoneyGtMax(price) THEN Bad(INVALID_FIELD, 0)
    ELSE Good(Quantize(price))

_validate_color(color) ==
    IF color = <<>> THEN Bad(INVALID_FIELD, color)
    ELSE With(Strip(color), LAMBDA cl :
         IF Len(cl) < 3 \/ Len(cl) > 30 THEN Bad(INVALID_FIELD, color)
         ELSE IF ~AllChars(cl, LAMBDA ch : IsLetter(ch) \/ IsSpace(ch))
              THEN Bad(INVALID_FIELD, color)
         ELSE Good(Title(cl)))

NoVehicle ==
    [id |-> 0, brand |-> <<>>, model |-> <<>>, year |-> 0, price |-> 0,
     color |-> <<>>, status |-> AVAILABLE, created_at |-> 0, updated_at |-> 0]

(* Vehicle.__init__: the fields are validated in the order brand, model, year, *)
(* price, color; created_at and updated_at default to the current time         *)
Vehicle(brand, model, year, price, color, vehicle_id, status, created_at, updated_at) ==
    With(<<_validate_brand(brand), _validate_model(model), _validate_year(year),
           _validate_price(price), _validate_color(color)>>, LAMBDA f :
        IF \E i \in 1..5 : f[i].err # OK THEN Bad(INVALID_FIELD, NoVehicle)
        ELSE Good([id |-> vehicle_id, brand |-> f[1].val, model |-> f[2].val,
                   year |-> f[3].val, price |-> f[4].val, color |-> f[5].val,
                   status |-> status, created_at |-> created_at,
                   updated_at |-> updated_at]))

(* variant: every vehicle counts as available *)
is_available_Always(v) == TRUE

is_available(v) == v.status = AVAILABLE

(* variant: a sold vehicle is put back on offer *)
mark_as_sold_Toggle(v, t) ==
    Good([v EXCEPT !.status = IF v.status = AVAILABLE THEN SOLD ELSE AVAILABLE,
                   !.updated_at = t])

(* variant: marking a sold vehicle again succeeds *)
mark_as_sold_Idempotent(v, t) == Good([v EXCEPT !.status = SOLD, !.updated_at = t])

mark_as_sold(v, t) ==
    IF ~is_available(v) THEN Bad(INVALID_STATE, v)
    ELSE Good([v EXCEPT !.status = SOLD, !.updated_at = t])

update_price(v, new_price, t) ==
    IF ~is_available(v) THEN Bad(INVALID_STATE, v)
    ELSE With(_validate_price(new_price), LAMBDA p :
         IF p.err # OK THEN Bad(INVALID_FIELD, v)
         ELSE Good([v EXCEPT !.price = p.val, !.updated_at = t]))

(* Python truth value of an optional str / int argument *)
TruthyStr(o) == o.some /\ o.val # <<>>
TruthyInt(o) == o.some /\ o.val # 0

(* Vehicle.update_details: `if brand:` ... replace only the truthy arguments *)
update_details(v, brand, model, year, color, t) ==
    IF ~is_available(v) THEN Bad(INVALID_STATE, v)
    ELSE With(<<IF TruthyStr(brand) THEN _validate_brand(brand.val) ELSE Good(v.brand),
                IF TruthyStr(model) THEN _validate_model(model.val) ELSE Good(v.model),
                IF TruthyInt(year) THEN _validate_year(year.val) ELSE Good(v.year),
                IF TruthyStr(color) THEN _validate_color(color.val) ELSE Good(v.color)>>,
              LAMBDA f :
         IF \E i \in 1..4 : f[i].err # OK THEN Bad(INVALID_FIELD, v)
         ELSE Good([v EXCEPT !.brand = f[1].val, !.model = f[2].val, !.year = f[3].val,
                             !.color = f[4].val, !.updated_at = t]))

-----------------------------------------------------------------------------
(* Sale entity: src/src/entities/sale.py *)

PENDING == "pending"
APPROVED == "approved"
REJECTED == "rejected"

MaxSaleAgeDays == 30

DigitVal(ch) ==
    CASE ch = "0" -> 0 [] ch = "1" -> 1 [] ch = "2" -> 2 [] ch = "3" -> 3
      [] ch = "4" -> 4 [] ch = "5" -> 5 [] ch = "6" -> 6 [] ch = "7" -> 7
      [] ch = "8" -> 8 [] ch = "9" -> 9

(* re.sub(r'[^0-9]', '', cpf) *)
RECURSIVE DigitsOnly(_)
DigitsOnly(s) ==
    IF s = <<>> THEN <<>>
    ELSE IF IsDigit(Head(s)) THEN <<Head(s)>> \o DigitsOnly(Tail(s))
    ELSE DigitsOnly(Tail(s))

(* sum(int(cpf[i]) * (w - i) for i in range(n)), with Python's 0-based i *)
RECURSIVE WeightedSum(_, _, _)
WeightedSum(cpf, w, n) ==
    IF n = 0 THEN 0
    ELSE WeightedSum(cpf, w, n - 1) + DigitVal(cpf[n]) * (w - (n - 1))

(* variant: a check digit of 10 or 11 is not mapped to 0 *)
CheckDigit_NoWrap(cpf, w, n) == 11 - (WeightedSum(cpf, w, n) % 11)

CheckDigit(cpf, w, n) ==
    With(11 - (WeightedSum(cpf, w, n) % 11), LAMBDA d : IF d >= 10 THEN 0 ELSE d)

(* variant: only the first check digit is compared *)
_validate_cpf_algorithm_FirstOnly(cpf) == DigitVal(cpf[10]) = CheckDigit(cpf, 10, 9)

_validate_cpf_algorithm(cpf) ==
    IF DigitVal(cpf[10]) # CheckDigit(cpf, 10, 9) THEN FALSE
    ELSE DigitVal(cpf[11]) = CheckDigit(cpf, 11, 10)

FormatCpf(cpf) ==
    SubSeq(cpf, 1, 3) \o <<".">> \o SubSeq(cpf, 4, 6) \o <<".">>
        \o SubSeq(cpf, 7, 9) \o <<"-">> \o SubSeq(cpf, 10, 11)

_validate_cpf(cpf) ==
    IF cpf = <<>> THEN Bad(INVALID_FIELD, cpf)
    ELSE With(DigitsOnly(cpf), LAMBDA d :
         IF Len(d) # 11 THEN Bad(INVALID_FIELD, cpf)
         ELSE IF \A i \in 1..11 : d[i] = d[1] THEN Bad(INVALID_FIELD, cpf)
         ELSE IF ~_validate_cpf_algorithm(d) THEN Bad(INVALID_FIELD, cpf)
         ELSE Good(FormatCpf(d)))

_validate_vehicle_id(vehicle_id) ==
    IF vehicle_id <= 0 THEN Bad(INVALID_FIELD, vehicle_id) ELSE Good(vehicle_id)

(* sale_date and t in days: not after the end of the current day, and *)
(* (now - sale_date).days <= 30                                        *)
_validate_sale_date(sale_date, t) ==
    IF sale_date > t THEN Bad(INVALID_FIELD, sale_date)
    ELSE IF t - sale_date > MaxSaleAgeDays THEN Bad(INVALID_FIELD, sale_date)
    ELSE Good(sale_date)

_validate_amount(amount) ==
    IF MoneyLeqZero(amount) \/ MoneyGtMax(amount) THEN Bad(INVALID_FIELD, 0)
    ELSE Good(Quantize(amount))

NoSale ==
    [id |-> 0, vehicle_id |-> 0, customer_cpf |-> <<>>, sale_date |-> 0,
     amount |-> 0, payment_status |-> PENDING, created_at |-> 0, updated_at |-> 0]

(* Sale.__init__, evaluated at time t *)
Sale(vehicle_id, customer_cpf, sale_date, amount, sale_id, payment_status, created_at, updated_at, t) ==
    With(<<_validate_vehicle_id(vehicle_id), _validate_cpf(customer_cpf),
           _validate_sale_date(sale_date, t), _validate_amount(amount)>>, LAMBDA f :
        IF \E i \in 1..4 : f[i].err # OK THEN Bad(INVALID_FIELD, NoSale)
        ELSE Good([id |-> sale_id, vehicle_id |-> f[1].val, customer_cpf |-> f[2].val,
                   sale_date |-> f[3].val, amount |-> f[4].val,
                   payment_status |-> payment_status, created_at |-> created_at,
                   updated_at |-> updated_at]))

is_payment_approved(s) == s.payment_status = APPROVED
is_payment_rejected(s) == s.payment_status = REJECTED

(* variant: approval without the check on a rejected payment *)
approve_payment_Any(s, t) == Good([s EXCEPT !.payment_status = APPROVED, !.updated_at = t])

(* variant: approving an approved sale touches updated_at *)
approve_payment_Touch(s, t) ==
    IF is_payment_rejected(s) THEN Bad(INVALID_STATE, s)
    ELSE Good([s EXCEPT !.payment_status = APPROVED, !.updated_at = t])

approve_payment(s, t) ==
    IF is_payment_approved(s) THEN Good(s)
    ELSE IF is_payment_rejected(s) THEN Bad(INVALID_STATE, s)
    ELSE Good([s EXCEPT !.payment_status = APPROVED, !.updated_at = t])

reject_payment(s, t) ==
    IF is_payment_rejected(s) THEN Good(s)
    ELSE IF is_payment_approved(s) THEN Bad(INVALID_STATE, s)
    ELSE Good([s EXCEPT !.payment_status = REJECTED, !.updated_at = t])

(* variant: a sale is cancelled whatever its payment status *)
cancel_sale_Any(s, t) == Good([s EXCEPT !.payment_status = REJECTED, !.updated_at = t])

cancel_sale(s, t) ==
    IF is_payment_approved(s) THEN Bad(INVALID_STATE, s)
    ELSE Good([s EXCEPT !.payment_status = REJECTED, !.updated_at = t])

-----------------------------------------------------------------------------
(* Tables: src/src/external/database/models.py.  `vehicles` and `sales` are  *)
(* functions from the ids of the stored rows to the rows; DECIMAL(10, 2)     *)
(* columns hold cents.                                                       *)

(* A value written to a DECIMAL(10, 2) column is rounded to 2 decimals *)
DecimalColumn(p) == IF p.m >= 5 THEN p.c + 1 ELSE p.c

(* float(value) == stored Decimal, as the ORM compares a value assigned to a   *)
(* DECIMAL attribute with the loaded one: a float equals a 2-decimal Decimal  *)
(* only when the cents are a multiple of 25 (.00, .25, .50, .75)              *)
FloatEqualsDecimal(p, cents) == p.m = 0 /\ p.c = cents /\ cents % 25 = 0

(* Column(DateTime, default=datetime.now, onupdate=datetime.now): when an     *)
(* UPDATE is emitted and updated_at is not among the columns that changed,   *)
(* it takes the current time; with no changed column no UPDATE is emitted    *)
OnUpdate(row, changed, given, t) ==
    IF ~changed /\ given = row.updated_at THEN row.updated_at
    ELSE IF given # row.updated_at THEN given
    ELSE t

HasSaleFor(ss, vehicle_id) == \E i \in DOMAIN ss : ss[i].vehicle_id = vehicle_id
SaleIdFor(ss, vehicle_id) == CHOOSE i \in DOMAIN ss : ss[i].vehicle_id = vehicle_id

-----------------------------------------------------------------------------
(* Vehicle repository: src/src/external/database/vehicle_repository.py *)

VehicleRepo_model_to_dict(row) == [row EXCEPT !.price = Money(row.price)]

(* INSERT: the id is the next autoincrement value; created_at and updated_at *)
(* are not passed and take the column default, the current time              *)
VehicleRepo_save(vs, nid, data, t) ==
    With([id |-> nid, brand |-> data.brand, model |-> data.model,
          year |-> data.year, price |-> DecimalColumn(data.price),
          color |-> data.color, status |-> data.status,
          created_at |-> t, updated_at |-> t], LAMBDA row :
        [err |-> OK, rows |-> vs @@ (nid :> row), val |-> VehicleRepo_model_to_dict(row)])

VehicleRepo_find_by_id(vs, vehicle_id) ==
    IF vehicle_id \in DOMAIN vs
    THEN [found |-> TRUE, val |-> VehicleRepo_model_to_dict(vs[vehicle_id])]
    ELSE [found |-> FALSE, val |-> VehicleRepo_model_to_dict(NoVehicle)]

(* SELECT ... WHERE status = :status ORDER BY price ASC: the row sequences   *)
(* the query may return; rows of equal price come in any order              *)
VehicleRepo_find_ordered_by_price(vs, status) ==
    With({v \in DOMAIN vs : vs[v].status = status}, LAMBDA ids :
        {[i \in 1..Cardinality(ids) |-> VehicleRepo_model_to_dict(vs[q[i]])] :
            q \in {q \in [1..Cardinality(ids) -> ids] :
                      /\ \A i, j \in 1..Cardinality(ids) : i # j => q[i] # q[j]
                      /\ \A i, j \in 1..Cardinality(ids) :
                            i < j => vs[q[i]].price <= vs[q[j]].price}})

(* UPDATE: every key of the dict but 'id' is written, status included.  A *)
(* missing row or a failed commit ends in a bare Exception                *)
VehicleRepo_update(vs, vehicle_id, data, t, fail) ==
    IF vehicle_id \notin DOMAIN vs \/ fail
    THEN [err |-> INTERNAL, rows |-> vs, val |-> data]
    ELSE With([data EXCEPT !.id = vehicle_id, !.price = DecimalColumn(data.price),
                           !.updated_at =
                               OnUpdate(vs[vehicle_id],
                                        \/ \E k \in {"brand", "model", "year", "color", "status",
                                                     "created_at"} :
                                               data[k] # vs[vehicle_id][k]
                                        \/ ~FloatEqualsDecimal(data.price, vs[vehicle_id].price),
                                        data.updated_at, t)],
              LAMBDA row :
         [err |-> OK, rows |-> [vs EXCEPT ![vehicle_id] = row],
          val |-> VehicleRepo_model_to_dict(row)])

(* DELETE: False when the row is absent.  A vehicle that a sale references   *)
(* cannot go: sales.vehicle_id is a NOT NULL foreign key and the relationship *)
(* has no delete cascade, so the commit fails and is rolled back             *)
VehicleRepo_delete(vs, ss, vehicle_id) ==
    IF vehicle_id \notin DOMAIN vs THEN [err |-> OK, rows |-> vs, val |-> FALSE]
    ELSE IF HasSaleFor(ss, vehicle_id) THEN [err |-> INTERNAL, rows |-> vs, val |-> FALSE]
    ELSE [err |-> OK, rows |-> [i \in DOMAIN vs \ {vehicle_id} |-> vs[i]], val |-> TRUE]

-----------------------------------------------------------------------------
(* Vehicle gateway: src/src/gateways/vehicle_gateway.py *)

VehicleGateway_entity_to_dict(v) == [v EXCEPT !.price = Money(v.price)]

VehicleGateway_dict_to_entity(data) ==
    Vehicle(data.brand, data.model, data.year, data.price, data.color, data.id,
            data.status, data.created_at, data.updated_at)

(* the row is committed before the saved data is turned back into an entity *)
save_vehicle(vs, nid, v, t) ==
    With(VehicleRepo_save(vs, nid, VehicleGateway_entity_to_dict(v), t), LAMBDA r :
    With(VehicleGateway_dict_to_entity(r.val), LAMBDA e :
        [err |-> e.err, rows |-> r.rows, val |-> e.val]))

find_vehicle_by_id(vs, vehicle_id) ==
    With(VehicleRepo_find_by_id(vs, vehicle_id), LAMBDA d :
    IF ~d.found THEN [err |-> OK, found |-> FALSE, val |-> NoVehicle]
    ELSE With(VehicleGateway_dict_to_entity(d.val), LAMBDA e :
         [err |-> e.err, found |-> e.err = OK, val |-> e.val]))

(* find_available_vehicles_ordered_by_price and find_sold_vehicles_ordered_  *)
(* by_price: every row is turned into an entity; one row that does not      *)
(* validate makes the whole call raise                                      *)
find_vehicles_ordered_by_price(vs, status) ==
    {With([i \in 1..Len(rows) |-> VehicleGateway_dict_to_entity(rows[i])], LAMBDA es :
        IF \E i \in 1..Len(es) : es[i].err # OK THEN Bad(INVALID_FIELD, <<>>)
        ELSE Good([i \in 1..Len(es) |-> es[i].val])) :
     rows \in VehicleRepo_find_ordered_by_price(vs, status)}

update_vehicle(vs, v, t, fail) ==
    IF v.id = 0 THEN [err |-> INVALID_FIELD, rows |-> vs, val |-> v]
    ELSE With(VehicleRepo_update(vs, v.id, VehicleGateway_entity_to_dict(v), t, fail),
              LAMBDA r :
         IF r.err # OK THEN [err |-> r.err, rows |-> r.rows, val |-> v]
         ELSE With(VehicleGateway_dict_to_entity(r.val), LAMBDA e :
              [err |-> e.err, rows |-> r.rows, val |-> e.val]))

delete_vehicle(vs, ss, vehicle_id) == VehicleRepo_delete(vs, ss, vehicle_id)

-----------------------------------------------------------------------------
(* Sale repository: src/src/external/database/sale_repository.py *)

SaleRepo_model_to_dict(row) == [row EXCEPT !.amount = Money(row.amount)]

(* variant: sales.vehicle_id without the UNIQUE constraint *)
SaleRepo_save_NoUnique(ss, vs, nid, data, t, fail) ==
    IF fail \/ data.vehicle_id \notin DOMAIN vs
    THEN [err |-> INTERNAL, rows |-> ss, val |-> data]
    ELSE [err |-> OK,
          rows |-> ss @@ (nid :> [id |-> nid, vehicle_id |-> data.vehicle_id,
                                  customer_cpf |-> data.customer_cpf,
                                  sale_date |-> data.sale_date,
                                  amount |-> data.amount.c,
                                  payment_status |-> data.payment_status,
                                  created_at |-> t, updated_at |-> t]),
          val |-> [data EXCEPT !.id = nid]]

(* INSERT.  vehicle_id is UNIQUE and a foreign key to vehicles.id: a second  *)
(* row for the vehicle, a row for a vehicle that is gone, or a failed commit *)
(* is rolled back and ends in a bare Exception                               *)
SaleRepo_save(ss, vs, nid, data, t, fail) ==
    IF fail \/ HasSaleFor(ss, data.vehicle_id) \/ data.vehicle_id \notin DOMAIN vs
    THEN [err |-> INTERNAL, rows |-> ss, val |-> data]
    ELSE With([id |-> nid, vehicle_id |-> data.vehicle_id,
               customer_cpf |-> data.customer_cpf, sale_date |-> data.sale_date,
               amount |-> DecimalColumn(data.amount),
               payment_status |-> data.payment_status,
               created_at |-> t, updated_at |-> t], LAMBDA row :
         [err |-> OK, rows |-> ss @@ (nid :> row), val |-> SaleRepo_model_to_dict(row)])

SaleRepo_find_by_id(ss, sale_id) ==
    IF sale_id \in DOMAIN ss
    THEN [found |-> TRUE, val |-> SaleRepo_model_to_dict(ss[sale_id])]
    ELSE [found |-> FALSE, val |-> SaleRepo_model_to_dict(NoSale)]

SaleRepo_find_by_vehicle_id(ss, vehicle_id) ==
    IF HasSaleFor(ss, vehicle_id)
    THEN [found |-> TRUE, val |-> SaleRepo_model_to_dict(ss[SaleIdFor(ss, vehicle_id)])]
    ELSE [found |-> FALSE, val |-> SaleRepo_model_to_dict(NoSale)]

SaleRepo_update(ss, sale_id, data, t, fail) ==
    IF sale_id \notin DOMAIN ss \/ fail
    THEN [err |-> INTERNAL, rows |-> ss, val |-> data]
    ELSE With([data EXCEPT !.id = sale_id, !.amount = DecimalColumn(data.amount),
                           !.updated_at =
                               OnUpdate(ss[sale_id],
                                        \/ \E k \in {"vehicle_id", "customer_cpf", "sale_date",
                                                     "payment_status", "created_at"} :
                                               data[k] # ss[sale_id][k]
                                        \/ ~FloatEqualsDecimal(data.amount, ss[sale_id].amount),
                                        data.updated_at, t)],
              LAMBDA row :
         [err |-> OK, rows |-> [ss EXCEPT ![sale_id] = row],
          val |-> SaleRepo_model_to_dict(row)])

-----------------------------------------------------------------------------
(* Sale gateway: src/src/gateways/sale_gateway.py *)

SaleGateway_entity_to_dict(s) == [s EXCEPT !.amount = Money(s.amount)]

(* the Sale constructor validates again, sale_date against the current time *)
SaleGateway_dict_to_entity(data, t) ==
    Sale(data.vehicle_id, data.customer_cpf, data.sale_date, data.amount, data.id,
         data.payment_status, data.created_at, data.updated_at, t)

save_sale(ss, vs, nid, s, t, fail) ==
    With(SaleRepo_save(ss, vs, nid, SaleGateway_entity_to_dict(s), t, fail), LAMBDA r :
    IF r.err # OK THEN [err |-> r.err, rows |-> r.rows, val |-> s]
    ELSE With(SaleGateway_dict_to_entity(r.val, t), LAMBDA e :
         [err |-> e.err, rows |-> r.rows, val |-> e.val]))

find_sale_by_id(ss, sale_id, t) ==
    With(SaleRepo_find_by_id(ss, sale_id), LAMBDA d :
    IF ~d.found THEN [err |-> OK, found |-> FALSE, val |-> NoSale]
    ELSE With(SaleGateway_dict_to_entity(d.val, t), LAMBDA e :
         [err |-> e.err, found |-> e.err = OK, val |-> e.val]))

find_sale_by_vehicle_id(ss, vehicle_id, t) ==
    With(SaleRepo_find_by_vehicle_id(ss, vehicle_id), LAMBDA d :
    IF ~d.found THEN [err |-> OK, found |-> FALSE, val |-> NoSale]
    ELSE With(SaleGateway_dict_to_entity(d.val, t), LAMBDA e :
         [err |-> e.err, found |-> e.err = OK, val |-> e.val]))

(* every row is turned into an entity, in the order of the table (kept here *)
(* as the set of the entities); one row that does not validate makes the    *)
(* call raise                                                               *)
find_all_sales(ss, t) ==
    With({SaleGateway_dict_to_entity(SaleRepo_model_to_dict(ss[i]), t) : i \in DOMAIN ss},
         LAMBDA es :
        IF \E e \in es : e.err # OK THEN Bad(INVALID_FIELD, {})
        ELSE Good({e.val : e \in es}))

update_sale(ss, s, t, fail) ==
    IF s.id = 0 THEN [err |-> INVALID_FIELD, rows |-> ss, val |-> s]
    ELSE With(SaleRepo_update(ss, s.id, SaleGateway_entity_to_dict(s), t, fail), LAMBDA r :
         IF r.err # OK THEN [err |-> r.err, rows |-> r.rows, val |-> s]
         ELSE With(SaleGateway_dict_to_entity(r.val, t), LAMBDA e :
              [err |-> e.err, rows |-> r.rows, val |-> e.val]))

-----------------------------------------------------------------------------
(* Vehicle use cases: src/src/use_cases/vehicle_use_cases.py.  Each returns *)
(* the error kind and the table it leaves                                    *)

CreateVehicleUseCase(vs, nid, brand, model, year, price, color, t) ==
    With(Vehicle(brand, model, year, price, color, 0, AVAILABLE, t, t), LAMBDA e :
    IF e.err # OK THEN [err |-> e.err, rows |-> vs]
    ELSE With(save_vehicle(vs, nid, e.val, t), LAMBDA r :
         [err |-> r.err, rows |-> r.rows]))

(* variant: the details are written back before the price is looked at *)
UpdateVehicleUseCase_SaveDetails(vs, vehicle_id, brand, model, year, price, color, t) ==
    With(find_vehicle_by_id(vs, vehicle_id), LAMBDA fv :
    IF fv.err # OK THEN [err |-> fv.err, rows |-> vs]
    ELSE IF ~fv.found THEN [err |-> NOT_FOUND, rows |-> vs]
    ELSE With(IF TruthyStr(brand) \/ TruthyStr(model) \/ TruthyInt(year) \/ TruthyStr(color)
              THEN update_details(fv.val, brand, model, year, color, t)
              ELSE Good(fv.val), LAMBDA d :
         IF d.err # OK THEN [err |-> d.err, rows |-> vs]
         ELSE With(update_vehicle(vs, d.val, t, FALSE), LAMBDA u0 :
              With(IF price.some THEN update_price(d.val, price.val, t) ELSE Good(d.val),
                   LAMBDA p :
              IF p.err # OK THEN [err |-> p.err, rows |-> u0.rows]
              ELSE With(update_vehicle(u0.rows, p.val, t, FALSE), LAMBDA u :
                   [err |-> u.err, rows |-> u.rows])))))

UpdateVehicleUseCase(vs, vehicle_id, brand, model, year, price, color, t) ==
    With(find_vehicle_by_id(vs, vehicle_id), LAMBDA fv :
    IF fv.err # OK THEN [err |-> fv.err, rows |-> vs]
    ELSE IF ~fv.found THEN [err |-> NOT_FOUND, rows |-> vs]
    ELSE With(IF TruthyStr(brand) \/ TruthyStr(model) \/ TruthyInt(year) \/ TruthyStr(color)
              THEN update_details(fv.val, brand, model, year, color, t)
              ELSE Good(fv.val), LAMBDA d :
         IF d.err # OK THEN [err |-> d.err, rows |-> vs]
         ELSE With(IF price.some THEN update_price(d.val, price.val, t) ELSE Good(d.val),
                   LAMBDA p :
              IF p.err # OK THEN [err |-> p.err, rows |-> vs]
              ELSE With(update_vehicle(vs, p.val, t, FALSE), LAMBDA u :
                   [err |-> u.err, rows |-> u.rows]))))

DeleteVehicleUseCase(vs, ss, vehicle_id) ==
    With(find_vehicle_by_id(vs, vehicle_id), LAMBDA fv :
    IF fv.err # OK THEN [err |-> fv.err, rows |-> vs, val |-> FALSE]
    ELSE IF ~fv.found THEN [err |-> NOT_FOUND, rows |-> vs, val |-> FALSE]
    ELSE IF ~is_available(fv.val) THEN [err |-> INVALID_STATE, rows |-> vs, val |-> FALSE]
    ELSE delete_vehicle(vs, ss, vehicle_id))

MarkVehicleAsSoldUseCase(vs, vehicle_id, t) ==
    With(find_vehicle_by_id(vs, vehicle_id), LAMBDA fv :
    IF fv.err # OK THEN [err |-> fv.err, rows |-> vs]
    ELSE IF ~fv.found THEN [err |-> NOT_FOUND, rows |-> vs]
    ELSE With(mark_as_sold(fv.val, t), LAMBDA m :
         IF m.err # OK THEN [err |-> m.err, rows |-> vs]
         ELSE With(update_vehicle(vs, m.val, t, FALSE), LAMBDA u :
              [err |-> u.err, rows |-> u.rows])))

-----------------------------------------------------------------------------
(* Sale use cases: src/src/use_cases/sale_use_cases.py *)

NoFault == "none"
SaveFault == "save_sale"
UpdateFault == "update_vehicle"

(* CreateSaleUseCase.execute, lines 34-39: load the vehicle, require AVAILABLE *)
CreateSale_load(vs, vehicle_id) ==
    With(find_vehicle_by_id(vs, vehicle_id), LAMBDA fv :
    IF fv.err # OK THEN Bad(fv.err, NoVehicle)
    ELSE IF ~fv.found THEN Bad(NOT_FOUND, NoVehicle)
    ELSE IF ~is_available(fv.val) THEN Bad(INVALID_STATE, fv.val)
    ELSE Good(fv.val))

(* variant: the existing sale is not looked for *)
CreateSale_check_Skip(ss, vehicle_id, t) == OK

(* lines 42-44: a sale for the vehicle must not exist *)
CreateSale_check(ss, vehicle_id, t) ==
    With(find_sale_by_vehicle_id(ss, vehicle_id, t), LAMBDA fs :
    IF fs.err # OK THEN fs.err ELSE IF fs.found THEN CONFLICT ELSE OK)

(* lines 47-53: the Sale entity, PENDING, dated now *)
CreateSale_build(vehicle_id, customer_cpf, amount, t) ==
    Sale(vehicle_id, customer_cpf, t, amount, 0, PENDING, t, t, t)

(* line 56: the sale is saved, and committed *)
CreateSale_save(ss, vs, nid, s, t, fault) ==
    save_sale(ss, vs, nid, s, t, fault = SaveFault)

(* variant: the vehicle is not written back *)
CreateSale_update_Skip(vs, v, t, fault) == [err |-> OK, rows |-> vs]

(* lines 59-60: the loaded vehicle is marked sold and written back *)
CreateSale_update(vs, v, t, fault) ==
    With(mark_as_sold(v, t), LAMBDA m :
    IF m.err # OK THEN [err |-> m.err, rows |-> vs]
    ELSE With(update_vehicle(vs, m.val, t, fault = UpdateFault), LAMBDA u :
         [err |-> u.err, rows |-> u.rows]))

(* the whole call, run alone *)
CreateSaleUseCase(vs, ss, nid, vehicle_id, customer_cpf, amount, t, fault) ==
    With(CreateSale_load(vs, vehicle_id), LAMBDA ld :
    IF ld.err # OK THEN [err |-> ld.err, vehicles |-> vs, sales |-> ss]
    ELSE With(CreateSale_check(ss, vehicle_id, t), LAMBDA ck :
    IF ck # OK THEN [err |-> ck, vehicles |-> vs, sales |-> ss]
    ELSE With(CreateSale_build(vehicle_id, customer_cpf, amount, t), LAMBDA s :
    IF s.err # OK THEN [err |-> s.err, vehicles |-> vs, sales |-> ss]
    ELSE With(CreateSale_save(ss, vs, nid, s.val, t, fault), LAMBDA sv :
    IF sv.err # OK THEN [err |-> sv.err, vehicles |-> vs, sales |-> sv.rows]
    ELSE With(CreateSale_update(vs, ld.val, t, fault), LAMBDA up :
         [err |-> up.err, vehicles |-> up.rows, sales |-> sv.rows])))))

ApprovedStr == <<"a", "p", "p", "r", "o", "v", "e", "d">>
RejectedStr == <<"r", "e", "j", "e", "c", "t", "e", "d">>

(* variant: the status text is checked before the sale is looked up *)
UpdatePaymentStatusUseCase_StatusFirst(ss, sale_id, payment_status, t) ==
    With(Strip(Lower(payment_status)), LAMBDA st :
    IF st \notin {ApprovedStr, RejectedStr} THEN [err |-> INVALID_FIELD, rows |-> ss, val |-> NoSale]
    ELSE With(find_sale_by_id(ss, sale_id, t), LAMBDA fs :
         IF fs.err # OK THEN [err |-> fs.err, rows |-> ss, val |-> NoSale]
         ELSE IF ~fs.found THEN [err |-> NOT_FOUND, rows |-> ss, val |-> NoSale]
         ELSE With(IF st = ApprovedStr THEN approve_payment(fs.val, t)
                   ELSE reject_payment(fs.val, t), LAMBDA a :
              IF a.err # OK THEN [err |-> a.err, rows |-> ss, val |-> fs.val]
              ELSE update_sale(ss, a.val, t, FALSE))))

(* variant: the sale is written back before the transition is checked *)
UpdatePaymentStatusUseCase_SaveFirst(ss, sale_id, payment_status, t) ==
    With(find_sale_by_id(ss, sale_id, t), LAMBDA fs :
    IF fs.err # OK THEN [err |-> fs.err, rows |-> ss, val |-> NoSale]
    ELSE IF ~fs.found THEN [err |-> NOT_FOUND, rows |-> ss, val |-> NoSale]
    ELSE With(update_sale(ss, [fs.val EXCEPT !.updated_at = t], t, FALSE), LAMBDA u :
         With(Strip(Lower(payment_status)), LAMBDA st :
         IF st \notin {ApprovedStr, RejectedStr}
         THEN [err |-> INVALID_FIELD, rows |-> u.rows, val |-> fs.val]
         ELSE With(IF st = ApprovedStr THEN approve_payment(fs.val, t)
                   ELSE reject_payment(fs.val, t), LAMBDA a :
              IF a.err # OK THEN [err |-> a.err, rows |-> u.rows, val |-> fs.val]
              ELSE update_sale(u.rows, a.val, t, FALSE)))))

(* UpdatePaymentStatusUseCase.execute; payment_status is the text received *)
UpdatePaymentStatusUseCase(ss, sale_id, payment_status, t) ==
    With(find_sale_by_id(ss, sale_id, t), LAMBDA fs :
    IF fs.err # OK THEN [err |-> fs.err, rows |-> ss, val |-> NoSale]
    ELSE IF ~fs.found THEN [err |-> NOT_FOUND, rows |-> ss, val |-> NoSale]
    ELSE With(Strip(Lower(payment_status)), LAMBDA st :
         IF st \notin {ApprovedStr, RejectedStr}
         THEN [err |-> INVALID_FIELD, rows |-> ss, val |-> fs.val]
         ELSE With(IF st = ApprovedStr THEN approve_payment(fs.val, t)
                   ELSE reject_payment(fs.val, t), LAMBDA a :
              IF a.err # OK THEN [err |-> a.err, rows |-> ss, val |-> fs.val]
              ELSE update_sale(ss, a.val, t, FALSE))))

(* ProcessPaymentWebhookUseCase.execute.  The payload is a dict: has_* tell  *)
(* whether the key is present, sale_id_int whether sale_id is an int.  A     *)
(* ValueError of the update is turned into a result with success False; the  *)
(* checks before the try block raise                                         *)
ProcessPaymentWebhookUseCase(ss, payload, t) ==
    IF ~payload.has_sale_id \/ ~payload.has_status
    THEN [err |-> INVALID_FIELD, success |-> FALSE, cause |-> INVALID_FIELD, rows |-> ss]
    ELSE IF ~payload.sale_id_int
    THEN [err |-> INVALID_FIELD, success |-> FALSE, cause |-> INVALID_FIELD, rows |-> ss]
    ELSE With(UpdatePaymentStatusUseCase(ss, payload.sale_id, payload.status, t), LAMBDA u :
         IF u.err = OK THEN [err |-> OK, success |-> TRUE, cause |-> OK, rows |-> u.rows]
         ELSE IF u.err \in ValueErrors
         THEN [err |-> OK, success |-> FALSE, cause |-> u.err, rows |-> u.rows]
         ELSE [err |-> u.err, success |-> FALSE, cause |-> u.err, rows |-> u.rows])

-----------------------------------------------------------------------------
(* Inputs of the calls *)

Opt(S, dflt) == {None(dflt)} \cup {Some(x) : x \in S}

CpfValid == <<"5", "2", "9", ".", "9", "8", "2", ".", "2", "4", "7", "-", "2", "5">>
CpfBadChecksum == <<"1", "2", "3", ".", "4", "5", "6", ".", "7", "8", "9", "-", "0", "0">>
PaidStr == <<"p", "a", "d">>

CreateBrands == {<<" ", "a", "b", " ">>, <<"a", "!">>}
CreatePrices == {[c |-> 1000000, m |-> 4]}
UpdateBrands == {<<"c", "D">>}
UpdateYears == {0}
UpdatePrices == {Money(2500000)}
CpfInputs == {CpfValid, CpfBadChecksum}
AmountInputs == {Money(0), Money(900000)}
StatusInputs == {ApprovedStr, <<" ", "R", "e", "j", "e", "c", "t", "e", "d">>, PaidStr}

VehicleIds == 1..MaxVehicles
SaleIds == 1..MaxVehicles

Payload(has_sale_id, sale_id_int, sale_id, has_status, status) ==
    [has_sale_id |-> has_sale_id, sale_id_int |-> sale_id_int, sale_id |-> sale_id,
     has_status |-> has_status, status |-> status]

WebhookPayloads ==
    {Payload(TRUE, TRUE, i, TRUE, st) : i \in SaleIds, st \in {ApprovedStr, RejectedStr, PaidStr}}
        \cup {Payload(FALSE, TRUE, 1, TRUE, ApprovedStr),
              Payload(TRUE, FALSE, 1, TRUE, ApprovedStr),
              Payload(TRUE, TRUE, 1, FALSE, ApprovedStr)}

-----------------------------------------------------------------------------
(* State.  `last` is the call that ended last: its name, the id it was given, *)
(* the error kind it ended with, one flag (DeleteVehicle: the value returned;  *)
(* CreateSale: a storage failure was injected; ProcessPaymentWebhook: the      *)
(* `success` of the result) and the other arguments it was given, for          *)
(* ProcessPaymentWebhook followed by the kind of the error whose text the      *)
(* result carries.  `calls` holds the CreateSale calls that run step by step.  *)

Procs == 1..2

IdleCall ==
    [pc |-> "idle", vehicle_id |-> 0, customer_cpf |-> <<>>, amount |-> Money(0),
     vehicle |-> NoVehicle, sale |-> NoSale, err |-> OK]

Result(op, id, err, flag, args) ==
    [op |-> op, id |-> id, err |-> err, flag |-> flag, args |-> args]

Init ==
    /\ vehicles = <<>>
    /\ sales = <<>>
    /\ nextVehicleId = 1
    /\ nextSaleId = 1
    /\ now = 0
    /\ last = Result("none", 0, OK, FALSE, <<>>)
    /\ calls = [p \in Procs |-> IdleCall]

NextId(rows, rows2, n) == IF DOMAIN rows2 # DOMAIN rows THEN n + 1 ELSE n

CreateVehicleCall(brand, price) ==
    /\ nextVehicleId <= MaxVehicles
    /\ \E r \in {CreateVehicleUseCase(vehicles, nextVehicleId, brand, <<"a", "1">>,
                                    2000, price, <<"r", "e", "d">>, now)} :
          /\ vehicles' = r.rows
          /\ nextVehicleId' = NextId(vehicles, r.rows, nextVehicleId)
          /\ last' = Result("CreateVehicle", nextVehicleId, r.err, FALSE, <<brand, price>>)
    /\ UNCHANGED <<sales, nextSaleId, now, calls>>

CreateVehicle ==
    \E brand \in CreateBrands, price \in CreatePrices : CreateVehicleCall(brand, price)

UpdateVehicleCall(vehicle_id, brand, year, price) ==
    /\ \E r \in {UpdateVehicleUseCase(vehicles, vehicle_id, brand, None(<<>>), year,
                                    price, None(<<>>), now)} :
          /\ vehicles' = r.rows
          /\ last' = Result("UpdateVehicle", vehicle_id, r.err, FALSE, <<brand, year, price>>)
    /\ UNCHANGED <<sales, nextVehicleId, nextSaleId, now, calls>>

UpdateVehicle ==
    \E vehicle_id \in VehicleIds, brand \in Opt(UpdateBrands, <<>>),
       year \in Opt(UpdateYears, 0), price \in Opt(UpdatePrices, Money(0)) :
        UpdateVehicleCall(vehicle_id, brand, year, price)

DeleteVehicle ==
    /\ \E vehicle_id \in VehicleIds :
          \E r \in {DeleteVehicleUseCase(vehicles, sales, vehicle_id)} :
              /\ vehicles' = r.rows
              /\ last' = Result("DeleteVehicle", vehicle_id, r.err, r.val, <<>>)
    /\ UNCHANGED <<sales, nextVehicleId, nextSaleId, now, calls>>

MarkVehicleAsSold ==
    /\ \E vehicle_id \in VehicleIds :
          \E r \in {MarkVehicleAsSoldUseCase(vehicles, vehicle_id, now)} :
              /\ vehicles' = r.rows
              /\ last' = Result("MarkVehicleAsSold", vehicle_id, r.err, FALSE, <<>>)
    /\ UNCHANGED <<sales, nextVehicleId, nextSaleId, now, calls>>

CreateSaleCall(vehicle_id, customer_cpf, amount, fault) ==
    \E r \in {CreateSaleUseCase(vehicles, sales, nextSaleId, vehicle_id, customer_cpf,
                                 amount, now, fault)} :
        /\ vehicles' = r.vehicles
        /\ sales' = r.sales
        /\ nextSaleId' = NextId(sales, r.sales, nextSaleId)
        /\ last' = Result("CreateSale", vehicle_id, r.err, fault # NoFault,
                         <<customer_cpf, amount>>)
        /\ UNCHANGED <<nextVehicleId, now, calls>>

CreateSale ==
    \E vehicle_id \in VehicleIds, customer_cpf \in CpfInputs, amount \in AmountInputs :
        CreateSaleCall(vehicle_id, customer_cpf, amount, NoFault)

(* CreateSale with the commit of the sale, or of the vehicle, failing *)
CreateSaleFault ==
    \E vehicle_id \in VehicleIds, customer_cpf \in CpfInputs, amount \in AmountInputs,
       fault \in {SaveFault, UpdateFault} :
        CreateSaleCall(vehicle_id, customer_cpf, amount, fault)

UpdatePaymentStatus ==
    /\ \E sale_id \in SaleIds, payment_status \in StatusInputs :
          \E r \in {UpdatePaymentStatusUseCase(sales, sale_id, payment_status, now)} :
              /\ sales' = r.rows
              /\ last' = Result("UpdatePaymentStatus", sale_id, r.err, FALSE,
                                <<payment_status>>)
    /\ UNCHANGED <<vehicles, nextVehicleId, nextSaleId, now, calls>>

ProcessPaymentWebhook ==
    /\ \E payload \in WebhookPayloads :
          \E r \in {ProcessPaymentWebhookUseCase(sales, payload, now)} :
              /\ sales' = r.rows
              /\ last' = Result("ProcessPaymentWebhook", payload.sale_id, r.err, r.success,
                                <<payload, r.cause>>)
    /\ UNCHANGED <<vehicles, nextVehicleId, nextSaleId, now, calls>>

-----------------------------------------------------------------------------
(* HTTP: src/src/external/web.  A request is a call as `last` records it. *)

(* the request models of schemas.py accept the body of the call *)
SchemaAccepts(call) ==
    LET money(p) == p.m = 0 /\ p.c > 0 /\ p.c \div 100 <= 99999999
        text(b) == /\ Len(b) >= 2 /\ Len(b) <= 50
                   /\ \E i \in 1..Len(b) : ~IsSpace(b[i])
                   /\ \A i \in 1..Len(b) : IsLetter(b[i]) \/ IsSpace(b[i])
        status(st) == Lower(st) \in {ApprovedStr, RejectedStr}
    IN  CASE call.op = "CreateVehicle" -> text(call.args[1]) /\ money(call.args[2])
          [] call.op = "UpdateVehicle" ->
                /\ call.args[1].some => text(call.args[1].val)
                /\ call.args[2].some =>
                      (call.args[2].val >= 1900 /\ call.args[2].val <= 2030
                       /\ call.args[2].val <= CurrentYear + 1)
                /\ call.args[3].some => money(call.args[3].val)
          [] call.op = "CreateSale" ->
                /\ call.id > 0
                /\ Len(call.args[1]) >= 11 /\ Len(call.args[1]) <= 14
                /\ Len(DigitsOnly(call.args[1])) = 11
                /\ money(call.args[2])
          [] call.op = "UpdatePaymentStatus" -> status(call.args[1])
          [] call.op = "ProcessPaymentWebhook" ->
                /\ call.args[1].has_sale_id /\ call.args[1].sale_id_int
                /\ call.args[1].has_status
                /\ call.args[1].sale_id > 0 /\ status(call.args[1].status)
          [] OTHER -> TRUE

(* the error_code of the dict the controller returns: "" without 'error'.  *)
(* ValueError becomes VALIDATION_ERROR and any other exception INTERNAL_    *)
(* ERROR; the list methods and the webhook have a single except clause;    *)
(* the find methods answer SALE_NOT_FOUND when the use case returns None   *)
ErrorCode(call) ==
    IF call.op = "ProcessPaymentWebhook"
    THEN (IF call.err = OK THEN "" ELSE "WEBHOOK_ERROR")
    ELSE IF call.op \in {"ListAvailableVehicles", "ListSoldVehicles", "ListAllSales"}
    THEN (IF call.err = OK THEN "" ELSE "INTERNAL_ERROR")
    ELSE IF call.err \in ValueErrors THEN "VALIDATION_ERROR"
    ELSE IF call.err # OK THEN "INTERNAL_ERROR"
    ELSE IF call.op = "DeleteVehicle" /\ ~call.flag THEN "DELETE_ERROR"
    ELSE IF call.op \in {"FindSaleById", "FindSaleByVehicleId"} /\ ~call.flag
    THEN "SALE_NOT_FOUND"
    ELSE ""

(* vehicle_routes.py: the status code and the detail of the answer.  The    *)
(* detail is the controller's dict (its error_code and message) or the      *)
(* fixed text; `message` is the text of a storage exception.  In            *)
(* create_vehicle the HTTPException raised for an error dict is caught by   *)
(* the `except Exception` below it                                          *)
VehicleRoute(call, message) ==
    LET code == ErrorCode(call)
        result == <<code, IF call.err \in ValueErrors THEN call.err ELSE message>>
        fixed == <<"Erro interno do servidor">>
    IN  CASE call.op = "CreateVehicle" ->
                IF code = "" THEN [status |-> 201, detail |-> <<>>]
                ELSE [status |-> 500, detail |-> fixed]
          [] call.op \in {"UpdateVehicle", "DeleteVehicle"} ->
                IF code = "" THEN [status |-> 200, detail |-> <<>>]
                ELSE IF code = "VALIDATION_ERROR" THEN [status |-> 400, detail |-> result]
                ELSE [status |-> 500, detail |-> result]
          [] call.op \in {"ListAvailableVehicles", "ListSoldVehicles"} ->
                IF code = "" THEN [status |-> 200, detail |-> <<>>]
                ELSE [status |-> 500, detail |-> fixed]

(* sale_routes.py; the webhook route answers 200 whatever the result *)
SaleRoute(call, message) ==
    LET code == ErrorCode(call)
        result == <<code, IF call.err \in ValueErrors THEN call.err ELSE message>>
        fixed == <<"Erro interno do servidor">>
    IN  CASE call.op = "CreateSale" ->
                IF code = "" THEN [status |-> 201, detail |-> <<>>]
                ELSE [status |-> 500, detail |-> fixed]
          [] call.op \in {"FindSaleById", "FindSaleByVehicleId"} ->
                IF code = "" THEN [status |-> 200, detail |-> <<>>]
                ELSE IF code = "SALE_NOT_FOUND" THEN [status |-> 404, detail |-> <<code>>]
                ELSE [status |-> 400, detail |-> result]
          [] call.op = "ListAllSales" ->
                IF code = "" THEN [status |-> 200, detail |-> <<>>]
                ELSE [status |-> 500, detail |-> fixed]
          [] call.op = "UpdatePaymentStatus" ->
                IF code = "" THEN [status |-> 200, detail |-> <<>>]
                ELSE IF code = "VALIDATION_ERROR" THEN [status |-> 400, detail |-> result]
                ELSE IF code = "SALE_NOT_FOUND" THEN [status |-> 404, detail |-> <<code>>]
                ELSE [status |-> 500, detail |-> result]
          [] call.op = "ProcessPaymentWebhook" ->
                [status |-> 200, detail |-> IF code = "" THEN <<>> ELSE result]

NextVehicle ==
    \/ CreateVehicle
    \/ UpdateVehicle
    \/ DeleteVehicle
    \/ MarkVehicleAsSold
    \/ CreateSale

(* the vehicle use cases and CreateSale, one call after another *)
SpecVehicle == Init /\ [][NextVehicle]_vars

NextPayment ==
    \/ CreateVehicle
    \/ CreateSale
    \/ UpdatePaymentStatus
    \/ ProcessPaymentWebhook

(* sales and their payment updates, one call after another *)
SpecPayment == Init /\ [][NextPayment]_vars

NextFault ==
    \/ CreateVehicle
    \/ DeleteVehicle
    \/ CreateSale
    \/ CreateSaleFault

(* CreateSale with storage failures between other calls *)
SpecFault == Init /\ [][NextFault]_vars

-----------------------------------------------------------------------------
(* CreateSale calls of two requests, step by step.  The steps are the places *)
(* where execute() reads or writes a table; each write is its own commit.    *)

RaceCpfs == {CpfValid}
RaceAmounts == {Money(900000), Money(0)}

EndCall(p, err) == calls' = [calls EXCEPT ![p].pc = "done", ![p].err = err]

(* lines 34-39: the request arrives, the vehicle is loaded and must be AVAILABLE *)
RaceLoad(p) ==
    /\ calls[p].pc = "idle"
    /\ \E vehicle_id \in VehicleIds, customer_cpf \in RaceCpfs, amount \in RaceAmounts :
          \E ld \in {CreateSale_load(vehicles, vehicle_id)} :
              calls' = [calls EXCEPT ![p] =
                            [pc |-> IF ld.err = OK THEN "loaded" ELSE "done",
                             vehicle_id |-> vehicle_id, customer_cpf |-> customer_cpf,
                             amount |-> amount, vehicle |-> ld.val, sale |-> NoSale,
                             err |-> ld.err]]
    /\ UNCHANGED <<vehicles, sales, nextVehicleId, nextSaleId, now, last>>

(* lines 42-53: no sale may exist for the vehicle; the Sale entity is built *)
RaceCheck(p) ==
    /\ calls[p].pc = "loaded"
    /\ \E ck \in {CreateSale_check(sales, calls[p].vehicle_id, now)} :
          IF ck # OK THEN EndCall(p, ck)
          ELSE \E s \in {CreateSale_build(calls[p].vehicle_id, calls[p].customer_cpf,
                                          calls[p].amount, now)} :
                   IF s.err # OK THEN EndCall(p, s.err)
                   ELSE calls' = [calls EXCEPT ![p].pc = "checked", ![p].sale = s.val]
    /\ UNCHANGED <<vehicles, sales, nextVehicleId, nextSaleId, now, last>>

(* line 56: the sale is inserted and committed *)
RaceSave(p) ==
    /\ calls[p].pc = "checked"
    /\ \E sv \in {CreateSale_save(sales, vehicles, nextSaleId, calls[p].sale, now, NoFault)} :
          /\ sales' = sv.rows
          /\ nextSaleId' = NextId(sales, sv.rows, nextSaleId)
          /\ IF sv.err # OK THEN EndCall(p, sv.err)
             ELSE calls' = [calls EXCEPT ![p].pc = "saved", ![p].sale = sv.val]
    /\ UNCHANGED <<vehicles, nextVehicleId, now, last>>

(* lines 59-62: the vehicle loaded at the start is marked sold and written back *)
RaceUpdate(p) ==
    /\ calls[p].pc = "saved"
    /\ \E up \in {CreateSale_update(vehicles, calls[p].vehicle, now, NoFault)} :
          /\ vehicles' = up.rows
          /\ EndCall(p, up.err)
    /\ UNCHANGED <<sales, nextVehicleId, nextSaleId, now, last>>

NextRace ==
    \/ CreateVehicle
    \/ \E p \in Procs : RaceLoad(p)
    \/ \E p \in Procs : RaceCheck(p)
    \/ \E p \in Procs : RaceSave(p)
    \/ \E p \in Procs : RaceUpdate(p)

(* two CreateSale requests with their steps interleaved *)
SpecRace == Init /\ [][NextRace]_vars

-----------------------------------------------------------------------------
(* Payment updates while time passes *)

ClockAmounts == {Money(900000), Money(900010)}

(* the state after one vehicle was created and sold at time 0 *)
InitClock ==
    \E amount \in ClockAmounts :
        \E v \in {CreateVehicleUseCase(<<>>, 1, <<"a", "b">>, <<"a", "1">>, 2000,
                                       Money(1000000), <<"r", "e", "d">>, 0)} :
            \E r \in {CreateSaleUseCase(v.rows, <<>>, 1, 1, CpfValid, amount, 0, NoFault)} :
                /\ vehicles = r.vehicles
                /\ sales = r.sales
                /\ nextVehicleId = 2
                /\ nextSaleId = 2
                /\ now = 0
                /\ last = Result("CreateSale", 1, r.err, FALSE, <<CpfValid, amount>>)
                /\ calls = [p \in Procs |-> IdleCall]

(* datetime.now() moves on between two calls *)
Tick ==
    /\ now < MaxNow
    /\ now' = now + 1
    /\ UNCHANGED <<vehicles, sales, nextVehicleId, nextSaleId, last, calls>>

NextClock ==
    \/ UpdatePaymentStatus
    \/ ProcessPaymentWebhook
    \/ Tick

SpecClock == InitClock /\ [][NextClock]_vars

-----------------------------------------------------------------------------
(* UpdatePaymentStatus calls of two requests, step by step.  Each request  *)
(* has its own session (get_db_session): the sale is read, the transition  *)
(* is made on the entity in memory, and the entity is written back and     *)
(* committed.  The row is not locked and carries no version.               *)

(* lines 137-151: the sale is loaded and approved or rejected in memory *)
RacePayLoad(p) ==
    /\ calls[p].pc = "idle"
    /\ \E sale_id \in SaleIds, payment_status \in {ApprovedStr, RejectedStr} :
          \E fs \in {find_sale_by_id(sales, sale_id, now)} :
              IF fs.err # OK THEN EndCall(p, fs.err)
              ELSE IF ~fs.found THEN EndCall(p, NOT_FOUND)
              ELSE \E a \in {IF payment_status = ApprovedStr THEN approve_payment(fs.val, now)
                              ELSE reject_payment(fs.val, now)} :
                       IF a.err # OK THEN EndCall(p, a.err)
                       ELSE calls' = [calls EXCEPT ![p].pc = "loaded", ![p].sale = a.val]
    /\ UNCHANGED <<vehicles, sales, nextVehicleId, nextSaleId, now, last>>

(* line 154: update_sale writes the entity held in memory and commits *)
RacePayPersist(p) ==
    /\ calls[p].pc = "loaded"
    /\ \E u \in {update_sale(sales, calls[p].sale, now, FALSE)} :
          /\ sales' = u.rows
          /\ EndCall(p, u.err)
    /\ UNCHANGED <<vehicles, nextVehicleId, nextSaleId, now, last>>

NextPayRace ==
    \/ \E p \in Procs : RacePayLoad(p)
    \/ \E p \in Procs : RacePayPersist(p)
    \/ UpdatePaymentStatus

(* two payment updates of the sale of InitClock with their steps interleaved, *)
(* among updates that run from start to end                                   *)
SpecPayRace == InitClock /\ [][NextPayRace]_vars

-----------------------------------------------------------------------------
(* A stored sale read and updated as the weeks pass *)

(* FindSaleByIdUseCase; the flag of `last` tells whether a sale was returned *)
FindSaleById ==
    /\ \E sale_id \in {0} \cup SaleIds :
          \E r \in {IF sale_id <= 0 THEN [err |-> INVALID_FIELD, found |-> FALSE]
                     ELSE find_sale_by_id(sales, sale_id, now)} :
              last' = Result("FindSaleById", sale_id, r.err, r.found, <<>>)
    /\ UNCHANGED <<vehicles, sales, nextVehicleId, nextSaleId, now, calls>>

FindSaleByVehicleId ==
    /\ \E vehicle_id \in {0} \cup VehicleIds :
          \E r \in {IF vehicle_id <= 0 THEN [err |-> INVALID_FIELD, found |-> FALSE]
                     ELSE find_sale_by_vehicle_id(sales, vehicle_id, now)} :
              last' = Result("FindSaleByVehicleId", vehicle_id, r.err, r.found, <<>>)
    /\ UNCHANGED <<vehicles, sales, nextVehicleId, nextSaleId, now, calls>>

ListAllSales ==
    /\ \E r \in {find_all_sales(sales, now)} :
          last' = Result("ListAllSales", 0, r.err, FALSE, <<r.val>>)
    /\ UNCHANGED <<vehicles, sales, nextVehicleId, nextSaleId, now, calls>>

(* datetime.now() moves on by 30 or by 31 days between two calls *)
Pass ==
    /\ \E d \in {MaxSaleAgeDays, MaxSaleAgeDays + 1} :
          /\ now + d <= MaxNow * (MaxSaleAgeDays + 1)
          /\ now' = now + d
    /\ UNCHANGED <<vehicles, sales, nextVehicleId, nextSaleId, last, calls>>

NextAge ==
    \/ FindSaleById
    \/ FindSaleByVehicleId
    \/ ListAllSales
    \/ UpdatePaymentStatus
    \/ Pass

SpecAge == InitClock /\ [][NextAge]_vars

-----------------------------------------------------------------------------
(* Sales with the CPF texts of the validation's cases *)

CpfRepeated == <<"1", "1", "1", ".", "1", "1", "1", ".", "1", "1", "1", "-", "1", "1">>
Cpf36 == <<"1", "1", "1", ".", "4", "4", "4", ".", "7", "7", "7", "-", "3", "6">>
Cpf35 == <<"1", "1", "1", ".", "4", "4", "4", ".", "7", "7", "7", "-", "3", "5">>
CpfCases ==
    {CpfValid, CpfRepeated, Cpf36, Cpf35, CpfBadChecksum,
     <<"5", "2", "9", "9", "8", "2", "2", "4", "7", "2", "5">>,
     <<"5", "2", "9", ".", "9", "8", "2", ".", "2", "4", "7", "-", "2", "6">>,
     <<"5", "2", "9", ".", "9", "8", "2", ".", "2", "4", "7", "-", "2">>,
     <<"5", "2", "9", ".", "9", "8", "2", ".", "2", "4", "7", "-", "2", "5", "0">>,
     <<" ", "5", "2", "9", " ", "9", "8", "2", " ", "2", "4", "7", " ", "2", "5", "a">>,
     <<"1", "0", "0", "0", "0", "0", "0", "3", "7", "0", "0">>,
     <<"1", "0", "0", "0", "0", "0", "0", "6", "3", "0", "0">>,
     <<"1", "0", "0", "0", "0", "0", "0", "3", "7", "0", "1">>,
     <<>>}

CreateSaleCpf ==
    \E vehicle_id \in VehicleIds, customer_cpf \in CpfCases :
        CreateSaleCall(vehicle_id, customer_cpf, Money(900000), NoFault)

NextCpf ==
    \/ CreateVehicle
    \/ CreateSaleCpf

SpecCpf == Init /\ [][NextCpf]_vars

-----------------------------------------------------------------------------
(* Vehicles and sales with amounts at the edges of the valid range *)

MoneyCases ==
    {Money(0), [c |-> 0, m |-> 4], [c |-> 0, m |-> 5], [c |-> 0, m |-> 6], Money(1),
     [c |-> 1000000, m |-> 4], Money(MaxPriceCents), [c |-> MaxPriceCents, m |-> 4],
     Money(MaxPriceCents + 1)}

CreateVehicleMoney == \E price \in MoneyCases : CreateVehicleCall(<<"a", "b">>, price)

CreateSaleMoney ==
    \E vehicle_id \in VehicleIds, amount \in MoneyCases :
        CreateSaleCall(vehicle_id, CpfValid, amount, NoFault)

NextMoney ==
    \/ CreateVehicleMoney
    \/ CreateSaleMoney

SpecMoney == Init /\ [][NextMoney]_vars

-----------------------------------------------------------------------------
(* The catalogue: vehicles at several prices, updated, sold and listed *)

CreateVehicleList ==
    \E price \in {[c |-> 0, m |-> 4], Money(1000000), Money(2000000)} :
        CreateVehicleCall(<<"a", "b">>, price)

UpdateVehicleCases ==
    \E vehicle_id \in VehicleIds, brand \in Opt({<<"c", "D">>, <<"a", "!">>}, <<>>),
       year \in Opt({1800}, 0), price \in Opt({Money(0), Money(1000000)}, Money(0)) :
        UpdateVehicleCall(vehicle_id, brand, year, price)

(* ListAvailableVehiclesUseCase and ListSoldVehiclesUseCase: the list the *)
(* call returns is kept in `last` *)
ListVehicles ==
    /\ \E status \in {AVAILABLE, SOLD} :
          \E r \in find_vehicles_ordered_by_price(vehicles, status) :
              last' = Result(IF status = AVAILABLE THEN "ListAvailableVehicles"
                             ELSE "ListSoldVehicles", 0, r.err, FALSE, r.val)
    /\ UNCHANGED <<vehicles, sales, nextVehicleId, nextSaleId, now, calls>>

NextCatalog ==
    \/ CreateVehicleList
    \/ UpdateVehicleCases
    \/ CreateSale
    \/ ListVehicles

SpecCatalog == Init /\ [][NextCatalog]_vars

Next ==
    \/ NextVehicle
    \/ NextPayment

Spec == Init /\ [][Next]_vars

-----------------------------------------------------------------------------
(* Properties *)

SalesFor(ss, v) == {i \in DOMAIN ss : ss[i].vehicle_id = v}

ValidSaleInput(customer_cpf, amount) ==
    /\ _validate_cpf(customer_cpf).err = OK
    /\ ~MoneyLeqZero(amount)
    /\ ~MoneyGtMax(amount)

(* the step is a call of `op` *)
IsCall(op) == last'.op = op

(* C1: a CreateSale call, storage failures included, ends with either a new  *)
(* Sale row for v and v stored SOLD, or with the Sale table and the stored   *)
(* vehicles exactly as before the call.                                      *)
C1_AllOrNothing ==
    [][IsCall("CreateSale") =>
          \/ /\ SalesFor(sales', last'.id) # SalesFor(sales, last'.id)
             /\ last'.id \in DOMAIN vehicles'
             /\ vehicles'[last'.id].status = SOLD
          \/ /\ sales' = sales
             /\ vehicles' = vehicles]_vars

(* both requests are over, both were for vehicle v, which existed, and both *)
(* carried a valid CPF and amount                                           *)
RaceOver(v) ==
    \A p \in Procs :
        /\ calls[p].pc = "done"
        /\ calls[p].vehicle_id = v
        /\ calls[p].err # NOT_FOUND
        /\ ValidSaleInput(calls[p].customer_cpf, calls[p].amount)

(* C2: when two CreateSale calls for the same AVAILABLE vehicle, both with  *)
(* valid input, run interleaved, exactly one succeeds, the vehicle ends     *)
(* SOLD and exactly one Sale row exists for it.                             *)
C2_ExactlyOneSale ==
    \A v \in VehicleIds :
        RaceOver(v) =>
            /\ Cardinality({p \in Procs : calls[p].err = OK}) = 1
            /\ vehicles[v].status = SOLD
            /\ Cardinality(SalesFor(sales, v)) = 1

(* both requests loaded the vehicle while it was AVAILABLE; one lost *)
C2_Witness ==
    \E v \in VehicleIds :
        /\ RaceOver(v)
        /\ \E p \in Procs : calls[p].err = CONFLICT /\ calls[p].vehicle.status = AVAILABLE

(* C3: in that race the call that does not succeed fails with CONFLICT or *)
(* INVALID_STATE, never with INTERNAL_ERROR.                              *)
C3_LoserConflict ==
    \A v \in VehicleIds :
        RaceOver(v) =>
            \A p \in Procs : calls[p].err # OK => calls[p].err \in {CONFLICT, INVALID_STATE}

(* the result the claim gives for CreateSale(v, cpf, amount) run alone *)
CreateSaleExpected(v, customer_cpf, amount) ==
    IF v \notin DOMAIN vehicles THEN NOT_FOUND
    ELSE IF vehicles[v].status # AVAILABLE THEN INVALID_STATE
    ELSE IF SalesFor(sales, v) # {} THEN CONFLICT
    ELSE IF ~ValidSaleInput(customer_cpf, amount) THEN INVALID_FIELD
    ELSE OK

C5_SuccessEffect ==
    [][(IsCall("CreateSale") /\ last'.err = OK) =>
          /\ \E sid \in DOMAIN sales' \ DOMAIN sales :
                /\ DOMAIN sales' = DOMAIN sales \cup {sid}
                /\ sales'[sid].vehicle_id = last'.id
                /\ sales'[sid].payment_status = PENDING
          /\ \A i \in DOMAIN sales : sales'[i] = sales[i]
          /\ DOMAIN vehicles' = DOMAIN vehicles
          /\ vehicles'[last'.id].status = SOLD
          /\ \A w \in DOMAIN vehicles \ {last'.id} : vehicles'[w] = vehicles[w]]_vars

C5_Witness ==
    /\ last.op = "CreateSale"
    /\ last.err = OK
    /\ Cardinality(DOMAIN sales) = 2
    /\ Cardinality(DOMAIN vehicles) = 2

(* C6: the stored status of a vehicle only ever goes from AVAILABLE to     *)
(* SOLD: no call takes a SOLD vehicle back to AVAILABLE.                   *)
C6_StatusOneWay ==
    [][\A v \in DOMAIN vehicles \cap DOMAIN vehicles' :
          \/ vehicles'[v].status = vehicles[v].status
          \/ vehicles[v].status = AVAILABLE /\ vehicles'[v].status = SOLD]_vars

C6_Witness ==
    \E v \in DOMAIN vehicles :
        /\ vehicles[v].status = SOLD
        /\ last.op \in {"UpdateVehicle", "MarkVehicleAsSold"}
        /\ last.id = v

(* C7: marking an AVAILABLE vehicle as sold makes it SOLD; marking a SOLD  *)
(* vehicle fails with INVALID_STATE and leaves it unchanged.               *)
C7_MarkAsSold ==
    [][(IsCall("MarkVehicleAsSold") /\ last'.id \in DOMAIN vehicles) =>
          IF vehicles[last'.id].status = AVAILABLE
          THEN last'.err = OK /\ vehicles'[last'.id].status = SOLD
          ELSE last'.err = INVALID_STATE /\ vehicles' = vehicles]_vars

C7_Witness ==
    /\ last.op = "MarkVehicleAsSold"
    /\ last.err = INVALID_STATE
    /\ vehicles[last.id].status = SOLD

(* C8: an UpdateVehicle call on a SOLD vehicle that supplies at least one  *)
(* of brand, model, year, color, price fails with INVALID_STATE and leaves *)
(* the stored vehicle as it was.                                           *)
C8_SoldUpdateRejected ==
    [][(/\ IsCall("UpdateVehicle")
        /\ last'.id \in DOMAIN vehicles
        /\ vehicles[last'.id].status = SOLD
        /\ \E i \in 1..3 : last'.args[i].some) =>
          /\ last'.err = INVALID_STATE
          /\ vehicles' = vehicles]_vars

C10_PaymentTransitions ==
    [][/\ DOMAIN sales \subseteq DOMAIN sales'
       /\ \A i \in DOMAIN sales :
             \/ sales'[i].payment_status = sales[i].payment_status
             \/ /\ sales[i].payment_status = PENDING
                /\ sales'[i].payment_status \in {APPROVED, REJECTED}]_vars

C10_Witness ==
    /\ last.op \in {"UpdatePaymentStatus", "ProcessPaymentWebhook"}
    /\ last.id \in DOMAIN sales
    /\ sales[last.id].payment_status = APPROVED
    /\ Strip(Lower(IF last.op = "UpdatePaymentStatus" THEN last.args[1]
                   ELSE last.args[1].status)) = RejectedStr

(* C11: approve_payment on an APPROVED sale changes nothing and raises     *)
(* nothing, on a REJECTED sale it fails with INVALID_STATE and leaves the  *)
(* sale as it was; reject_payment mirrors it; neither fails in any other   *)
(* state.                                                                  *)
C11_TerminalIdempotence ==
    \A i \in DOMAIN sales :
        /\ approve_payment(sales[i], now).err =
               (IF sales[i].payment_status = REJECTED THEN INVALID_STATE ELSE OK)
        /\ reject_payment(sales[i], now).err =
               (IF sales[i].payment_status = APPROVED THEN INVALID_STATE ELSE OK)
        /\ sales[i].payment_status # PENDING =>
               /\ approve_payment(sales[i], now).val = sales[i]
               /\ reject_payment(sales[i], now).val = sales[i]

C11_Witness ==
    \E i \in DOMAIN sales :
        /\ sales[i].payment_status = APPROVED
        /\ now > sales[i].updated_at
        /\ last.op = "UpdatePaymentStatus"
        /\ last.err = OK

WellFormed(payload) == payload.has_sale_id /\ payload.has_status /\ payload.sale_id_int

(* C12: ProcessPaymentWebhook never raises: whatever the payload, it      *)
(* returns a result with success true or false.                           *)
C12_WebhookNeverRaises ==
    [][IsCall("ProcessPaymentWebhook") => last'.err = OK]_vars

(* C13: ProcessPaymentWebhook with an integer sale_id that matches no     *)
(* stored sale returns success = false with the "não encontrada" error,   *)
(* whatever the status, and changes nothing in storage.                   *)
C13_WebhookUnknownSale ==
    [][(/\ IsCall("ProcessPaymentWebhook")
        /\ WellFormed(last'.args[1])
        /\ last'.args[1].sale_id \notin DOMAIN sales) =>
          /\ last'.err = OK
          /\ ~last'.flag
          /\ last'.id = last'.args[1].sale_id
          /\ last'.args[2] = NOT_FOUND
          /\ sales' = sales
          /\ vehicles' = vehicles]_vars

C13_Witness ==
    /\ last.op = "ProcessPaymentWebhook"
    /\ WellFormed(last.args[1])
    /\ last.id \notin DOMAIN sales
    /\ last.args[1].status = PaidStr
    /\ sales # <<>>

(* C14: when ProcessPaymentWebhook returns success = false for a stored   *)
(* sale, the stored sale, payment_status and updated_at included, is as   *)
(* it was before the call.                                                *)
C14_WebhookFailureFrame ==
    [][(/\ IsCall("ProcessPaymentWebhook")
        /\ WellFormed(last'.args[1])
        /\ last'.args[1].sale_id \in DOMAIN sales
        /\ last'.err = OK
        /\ ~last'.flag) => sales' = sales]_vars

C14_Witness ==
    /\ last.op = "ProcessPaymentWebhook"
    /\ last.id \in DOMAIN sales
    /\ ~last.flag
    /\ last.args[2] = INVALID_STATE
    /\ now > sales[last.id].updated_at

(* C15: a valid payload (stored sale, status approved or rejected)        *)
(* delivered a second time leaves the stored sale as the first delivery   *)
(* left it and returns the same success flag and status.                  *)
C15_WebhookIdempotent ==
    [][(/\ last.op = "ProcessPaymentWebhook"
        /\ IsCall("ProcessPaymentWebhook")
        /\ last'.args[1] = last.args[1]
        /\ WellFormed(last.args[1])
        /\ last.args[1].sale_id \in DOMAIN sales
        /\ last.args[1].status \in {ApprovedStr, RejectedStr}) =>
          /\ sales' = sales
          /\ last'.flag = last.flag]_vars

(* the check digit of the claim: weights n+1 down to 2 on the first n digits, *)
(* 11 - sum mod 11, 0 when that is 10 or more                                 *)
ClaimCheckDigit(d, n) ==
    LET S[k \in 0..n] == IF k = 0 THEN 0 ELSE S[k - 1] + DigitVal(d[k]) * (n + 2 - k)
        r == 11 - (S[n] % 11)
    IN  IF r >= 10 THEN 0 ELSE r

ClaimCpfAccepted(cpf) ==
    LET d == SelectSeq(cpf, IsDigit)
    IN  /\ Len(d) = 11
        /\ \E i \in 2..11 : d[i] # d[1]
        /\ DigitVal(d[10]) = ClaimCheckDigit(d, 9)
        /\ DigitVal(d[11]) = ClaimCheckDigit(d, 10)

ClaimCpfRendered(cpf) ==
    LET d == SelectSeq(cpf, IsDigit)
    IN  <<d[1], d[2], d[3], ".", d[4], d[5], d[6], ".", d[7], d[8], d[9], "-", d[10], d[11]>>

(* the step is a CreateSale call that gets as far as building the Sale, *)
(* with a valid amount                                                   *)
ReachesCpfValidation ==
    /\ IsCall("CreateSale")
    /\ ~last'.flag
    /\ last'.id \in DOMAIN vehicles
    /\ vehicles[last'.id].status = AVAILABLE
    /\ SalesFor(sales, last'.id) = {}
    /\ ~MoneyLeqZero(last'.args[2])
    /\ ~MoneyGtMax(last'.args[2])

(* C16: a CPF is accepted exactly when its digits-only form has 11 digits, *)
(* not all equal, with both check digits as the algorithm gives them; what  *)
(* is stored is the digits rendered as XXX.XXX.XXX-XX.                      *)
C16_CpfAcceptance ==
    [][ReachesCpfValidation =>
          /\ last'.err = (IF ClaimCpfAccepted(last'.args[1]) THEN OK ELSE INVALID_FIELD)
          /\ last'.err = OK =>
                \A i \in SalesFor(sales', last'.id) :
                    sales'[i].customer_cpf = ClaimCpfRendered(last'.args[1])]_vars

C16_Witness ==
    /\ last.op = "CreateSale"
    /\ last.err = OK
    /\ SelectSeq(last.args[1], IsDigit) = <<"1", "0", "0", "0", "0", "0", "0", "6", "3", "0", "0">>
    /\ \E i \in DOMAIN sales : sales[i].customer_cpf = ClaimCpfRendered(last.args[1])

(* the fixtures, with 111.444.777-36 accepted or not *)
FixtureOutcome(accept36) ==
    ReachesCpfValidation =>
        /\ last'.args[1] = CpfValid => last'.err = OK
        /\ last'.args[1] = CpfRepeated => last'.err = INVALID_FIELD
        /\ last'.args[1] = Cpf36 => last'.err = (IF accept36 THEN OK ELSE INVALID_FIELD)
        /\ last'.args[1] = CpfBadChecksum => last'.err = INVALID_FIELD

(* C17 as stated: 529.982.247-25 accepted, 111.111.111-11 rejected,     *)
(* 111.444.777-36 accepted, 123.456.789-00 rejected.                    *)
C17_FixturesAsStated == [][FixtureOutcome(TRUE)]_vars

(* C17 amended: 529.982.247-25 accepted, 111.111.111-11 rejected,       *)
(* 111.444.777-36 rejected, 123.456.789-00 rejected.                    *)
C17_FixturesAmended == [][FixtureOutcome(FALSE)]_vars

C17_Witness ==
    /\ last.op = "CreateSale"
    /\ last.args[1] = Cpf36
    /\ last.err = INVALID_FIELD
    /\ last.id \in DOMAIN vehicles
    /\ vehicles[last.id].status = AVAILABLE

(* C18: every stored Vehicle price and Sale amount is greater than 0 and  *)
(* at most 9,999,999.99 after rounding to 2 decimals; an input that       *)
(* rounds to 0.00 is rejected and stores nothing.                         *)
C18_MoneyInRange ==
    /\ \A v \in DOMAIN vehicles : vehicles[v].price > 0 /\ vehicles[v].price <= MaxPriceCents
    /\ \A i \in DOMAIN sales : sales[i].amount > 0 /\ sales[i].amount <= MaxPriceCents

(* C19: each vehicle whose stored status is SOLD has exactly one Sale     *)
(* that references it.                                                    *)
C19_SoldHasOneSale ==
    \A v \in DOMAIN vehicles :
        vehicles[v].status = SOLD => Cardinality(SalesFor(sales, v)) = 1

(* C20: an UpdateVehicle call on an AVAILABLE vehicle that supplies a     *)
(* brand, model, year or color violating its field invariant fails with   *)
(* INVALID_FIELD; fields not supplied keep their value.                   *)
C20_SuppliedFieldsValidated ==
    [][(/\ IsCall("UpdateVehicle")
        /\ last'.id \in DOMAIN vehicles
        /\ vehicles[last'.id].status = AVAILABLE) =>
          /\ (last'.args[2].some /\ (last'.args[2].val < MinYear
                                     \/ last'.args[2].val > CurrentYear + 1)) =>
                last'.err = INVALID_FIELD
          /\ ~last'.args[1].some => vehicles'[last'.id].brand = vehicles[last'.id].brand
          /\ ~last'.args[2].some => vehicles'[last'.id].year = vehicles[last'.id].year
          /\ ~last'.args[3].some => vehicles'[last'.id].price = vehicles[last'.id].price]_vars

(* the entity the gateway loads from a stored row goes to its mapping and *)
(* back unchanged, and its normalised texts validate to themselves         *)
VehicleRoundTrip(e) ==
    /\ VehicleGateway_dict_to_entity(VehicleGateway_entity_to_dict(e)) = Good(e)
    /\ _validate_brand(e.brand) = Good(e.brand)
    /\ _validate_model(e.model) = Good(e.model)
    /\ _validate_color(e.color) = Good(e.color)

SaleRoundTrip(e, t) ==
    /\ SaleGateway_dict_to_entity(SaleGateway_entity_to_dict(e), t) = Good(e)
    /\ _validate_cpf(e.customer_cpf) = Good(e.customer_cpf)

ListedAsClaimed(list, status) ==
    /\ {list[i].id : i \in 1..Len(list)} = {v \in DOMAIN vehicles : vehicles[v].status = status}
    /\ \A i, j \in 1..Len(list) : i < j => (list[i].id # list[j].id /\ list[i].price <= list[j].price)
    /\ \A i \in 1..Len(list) : list[i].price = vehicles[list[i].id].price

(* C22: ListAvailableSortedByPrice returns exactly the stored AVAILABLE    *)
(* vehicles and ListSoldSortedByPrice exactly the SOLD ones, each in       *)
(* non-decreasing price order, storage unchanged; after a successful       *)
(* CreateSale for v, v is in the sold list and not in the available list.  *)
C22_Lists ==
    [][/\ IsCall("ListAvailableVehicles") =>
            (last'.err = OK /\ ListedAsClaimed(last'.args, AVAILABLE)
             /\ vehicles' = vehicles /\ sales' = sales)
       /\ IsCall("ListSoldVehicles") =>
            (last'.err = OK /\ ListedAsClaimed(last'.args, SOLD)
             /\ vehicles' = vehicles /\ sales' = sales)
       /\ (IsCall("CreateSale") /\ last'.err = OK) =>
            /\ \A r \in find_vehicles_ordered_by_price(vehicles', SOLD) :
                  r.err = OK /\ \E i \in 1..Len(r.val) : r.val[i].id = last'.id
            /\ \A r \in find_vehicles_ordered_by_price(vehicles', AVAILABLE) :
                  r.err = OK => \A i \in 1..Len(r.val) : r.val[i].id # last'.id]_vars

VehicleEndpoints ==
    {"CreateVehicle", "UpdateVehicle", "DeleteVehicle", "ListAvailableVehicles",
     "ListSoldVehicles"}

SaleEndpoints ==
    {"CreateSale", "FindSaleById", "FindSaleByVehicleId", "ListAllSales",
     "UpdatePaymentStatus", "ProcessPaymentWebhook"}

(* the call is a request some route serves and its body passes the schema *)
Served(call) == call.op \in VehicleEndpoints \cup SaleEndpoints /\ SchemaAccepts(call)

(* the answer to the request; `message` is the text of the storage exception *)
Response(call, message) ==
    IF call.op \in VehicleEndpoints THEN VehicleRoute(call, message)
    ELSE SaleRoute(call, message)

Messages == {"deadlock found", "connection lost"}

(* C23: PUT and DELETE /vehicles/{id} on an absent vehicle, POST /sales   *)
(* for an absent vehicle_id and PUT /sales/{id}/payment-status on an      *)
(* absent sale answer 404.                                                *)
C23_NotFoundIs404 ==
    [][(/\ Served(last')
        /\ \/ /\ last'.op \in {"UpdateVehicle", "DeleteVehicle", "CreateSale"}
              /\ last'.id \notin DOMAIN vehicles
           \/ /\ last'.op = "UpdatePaymentStatus"
              /\ last'.id \notin DOMAIN sales) =>
          \A m \in Messages : Response(last', m).status = 404]_vars

(* C24: a request that fails with INVALID_FIELD or INVALID_STATE is       *)
(* answered with 400 on every endpoint, POST /sales and POST /vehicles    *)
(* included.                                                              *)
C24_InvalidIs400 ==
    [][(Served(last') /\ last'.err \in {INVALID_FIELD, INVALID_STATE}) =>
          \A m \in Messages : Response(last', m).status = 400]_vars

(* C25: a request that ends in a storage failure is answered with 500,    *)
(* and the answer is the same whatever the text of the storage exception. *)
C25_InternalNotLeaked ==
    [][(Served(last') /\ last'.err = INTERNAL) =>
          \A m1, m2 \in Messages :
              /\ Response(last', m1).status = 500
              /\ Response(last', m1) = Response(last', m2)]_vars

(* C26: cancel_sale fails with INVALID_STATE and leaves the sale unchanged *)
(* when payment_status is APPROVED; from PENDING or REJECTED it sets       *)
(* payment_status to REJECTED.                                             *)
C26_CancelSale ==
    \A i \in DOMAIN sales :
        \A r \in {cancel_sale(sales[i], now)} :
            IF sales[i].payment_status = APPROVED
            THEN r.err = INVALID_STATE /\ r.val = sales[i]
            ELSE /\ r.err = OK
                 /\ r.val.payment_status = REJECTED
                 /\ \A k \in DOMAIN sales[i] \ {"payment_status", "updated_at"} :
                       r.val[k] = sales[i][k]

C26_Witness ==
    /\ \E i \in DOMAIN sales :
          sales[i].payment_status = APPROVED /\ cancel_sale(sales[i], now).err = INVALID_STATE
    /\ now = MaxNow

(* C27: every stored Sale references a vehicle that is still in storage   *)
(* and whose status is SOLD, also after a CreateSale whose vehicle update *)
(* failed once the sale was saved.                                        *)
C27_SaleReferencesSoldVehicle ==
    \A i \in DOMAIN sales :
        /\ sales[i].vehicle_id \in DOMAIN vehicles
        /\ vehicles[sales[i].vehicle_id].status = SOLD

(* both payment requests are over, they were for sale i and asked for *)
(* opposite statuses while neither had been refused                    *)
OppositeOver(i) ==
    /\ \A p \in Procs : calls[p].pc = "done" /\ calls[p].sale.id = i
    /\ {calls[p].sale.payment_status : p \in Procs} = {APPROVED, REJECTED}

(* C28: with two payment updates of opposite statuses on a PENDING sale   *)
(* interleaved, exactly one call takes effect: the stored payment_status, *)
(* once APPROVED or REJECTED, never changes again, so the first call to   *)
(* persist decides it.                                                    *)
C28_FirstPersistWins ==
    [][\A i \in DOMAIN sales :
          /\ sales[i].payment_status # PENDING =>
                sales'[i].payment_status = sales[i].payment_status
          /\ OppositeOver(i) => Cardinality({p \in Procs : calls[p].err = OK}) = 1]_vars

(* the status text asks for a transition the stored sale permits *)
PermittedUpdate(s, payment_status) ==
    \/ Strip(Lower(payment_status)) = ApprovedStr /\ s.payment_status # REJECTED
    \/ Strip(Lower(payment_status)) = RejectedStr /\ s.payment_status # APPROVED

(* C29: a sale persisted by CreateSale stays readable and updatable at    *)
(* every later time: FindSaleById, FindSaleByVehicleId, ListAll and a     *)
(* permitted UpdatePaymentStatus on it succeed, also more than 30 days    *)
(* after its sale_date.                                                   *)
C29_SaleStaysUsable ==
    [][/\ (IsCall("FindSaleById") /\ last'.id \in DOMAIN sales) =>
            (last'.err = OK /\ last'.flag)
       /\ (IsCall("FindSaleByVehicleId") /\ SalesFor(sales, last'.id) # {}) =>
            (last'.err = OK /\ last'.flag)
       /\ IsCall("ListAllSales") =>
            (last'.err = OK /\ {e.id : e \in last'.args[1]} = DOMAIN sales)
       /\ (/\ IsCall("UpdatePaymentStatus")
           /\ last'.id \in DOMAIN sales
           /\ PermittedUpdate(sales[last'.id], last'.args[1])) => last'.err = OK]_vars

====
